---- MODULE Spec2Model ----
(***************************************************************************)
(* Model of the confer configuration resolver (jacobstr/confer).           *)
(*                                                                         *)
(* Strings that the code lowercases, uppercases, splits or joins (keys,    *)
(* materialized paths, environment variable names) are sequences of        *)
(* one-character strings.  File paths are sequences of tokens in which     *)
(* the token "." is the extension separator.  Values of the configuration  *)
(* tree are tagged records (see Nil, S, I, L, M).                          *)
(***************************************************************************)
EXTENDS Naturals, Sequences, FiniteSets, TLC

VARIABLES
    data,      \* ConfigSource.data of ConfigManager.attributes
    index,     \* ConfigSource.index: lowercase path -> real key
    envIndex,  \* EnvSource.index: key -> environment variable name
    pflagIndex,\* PFlagSource index: key -> bound flag
    environ,   \* the process environment (os.Getenv)
    flags,     \* the externally owned pflag.Flag objects
    alive,     \* FALSE once jww.ERROR.Fatalf has terminated the process
    nops,      \* operations issued so far, a load of n paths counting n
    op         \* the last operation: its arguments, what it returned and, for
               \* a load, the attribute store it started from

vars == <<data, index, envIndex, pflagIndex, environ, flags, alive, nops, op>>

-----------------------------------------------------------------------------
(* Bounds *)

MaxOps == 3
MaxPaths == 2

-----------------------------------------------------------------------------
(* Strings *)

\* strings.ToLower on one character
LowerChar(c) ==
    CASE c = "A" -> "a"
      [] c = "B" -> "b"
      [] c = "X" -> "x"
      [] OTHER -> c

\* strings.ToUpper on one character
UpperChar(c) ==
    CASE c = "a" -> "A"
      [] c = "b" -> "B"
      [] c = "x" -> "X"
      [] OTHER -> c

ToLower(str) == [i \in 1..Len(str) |-> LowerChar(str[i])]

ToUpper(str) == [i \in 1..Len(str) |-> UpperChar(str[i])]

\* strings.Replace(str, ".", "_", -1)
ReplaceDots(str) == [i \in 1..Len(str) |-> IF str[i] = "." THEN "_" ELSE str[i]]

\* envamize: the default environment variable name of a key
envamize(key) == ReplaceDots(ToUpper(key))

\* strings.Split(str, "."): the segments between the dots
RECURSIVE SplitFrom(_, _, _)
SplitFrom(str, i, cur) ==
    IF i > Len(str) THEN <<cur>>
    ELSE IF str[i] = "." THEN <<cur>> \o SplitFrom(str, i + 1, <<>>)
    ELSE SplitFrom(str, i + 1, Append(cur, str[i]))

Split(str) == SplitFrom(str, 1, <<>>)

-----------------------------------------------------------------------------
(* Values of the configuration tree *)

Nil == [t |-> "nil", s |-> "", l |-> <<>>, m |-> <<>>]
S(v) == [t |-> "s", s |-> v, l |-> <<>>, m |-> <<>>]
I(v) == [t |-> "i", s |-> v, l |-> <<>>, m |-> <<>>]
B(v) == [t |-> "b", s |-> v, l |-> <<>>, m |-> <<>>]
L(v) == [t |-> "l", s |-> "", l |-> v, m |-> <<>>]
M(f) == [t |-> "m", s |-> "", l |-> <<>>, m |-> f]

EmptyMap == [k \in {} |-> Nil]

IsMap(v) == v.t = "m"

\* cast.ToStringMap: a map is returned as it is, anything else gives an
\* empty map (the error of the cast is dropped)
ToStringMap(v) == IF IsMap(v) THEN v.m ELSE EmptyMap

\* SupportedExts of the confer package
SupportedExts == {"json", "toml", "yaml", "yml"}

\* cast.ToInt of the text of a flag value
ToInt(str) == IF str \in {"7", "8"} THEN I(str) ELSE I("0")

\* cast.ToBool of the text of a flag value
ToBool(str) == IF str \in {"true", "1"} THEN B("true") ELSE B("false")

-----------------------------------------------------------------------------
(* Key and value universes *)

Ka == <<"a">>
KA == <<"A">>
Kb == <<"b">>
Kab == <<"a", ".", "b">>
KAB == <<"A", ".", "B">>
Kx == <<"x">>

\* keys handed to Set, SetDefault, Get, BindEnv and BindPFlag
Keys == {Ka, Kab, KAB}

\* keys whose resolution is observed
QueryKeys == Keys \cup {KA}

\* case variants of a key: the keys that lowercase to the same string
Variants(k) == {k2 \in QueryKeys : ToLower(k2) = ToLower(k)}

\* values handed to Set and SetDefault
SetVals == {S("v1"), Nil, M([k \in {Kb} |-> S("v3")])}

\* explicit environment variable names handed to BindEnv(key, envVar)
ExplicitEnvNames == {KA}

EnvNames == {envamize(k) : k \in Keys} \cup ExplicitEnvNames

EnvVals == {"", "e1"}

\* the environments the process is started in: nothing set, or every variable set
InitialEnvirons == {[n \in EnvNames |-> v] : v \in EnvVals}

FlagIds == {"fs", "fi"}

FlagType(f) == IF f = "fi" THEN "int" ELSE "string"

FlagInit(f) == IF f = "fi" THEN "7" ELSE "p1"

FlagVals(f) == IF f = "fi" THEN {"8"} ELSE {"p2"}

-----------------------------------------------------------------------------
(* Go maps as functions *)

\* m[k] = v on a Go map
Put(f, k, v) == [x \in DOMAIN f \cup {k} |-> IF x = k THEN v ELSE f[x]]

NotFound == [val |-> Nil, exists |-> FALSE]

Found(v) == [val |-> v, exists |-> TRUE]

-----------------------------------------------------------------------------
(* source.ConfigSource *)

\* the segment by segment walk of ConfigSource.Get over the split index key
RECURSIVE Walk(_, _)
Walk(current, path) ==
    IF Len(path) = 1
    THEN IF path[1] \in DOMAIN current THEN Found(current[path[1]]) ELSE NotFound
    ELSE IF path[1] \notin DOMAIN current THEN NotFound
    ELSE Walk(ToStringMap(current[path[1]]), Tail(path))

\* ConfigSource.Get walking the segments first and trying the literal key
\* only when the walk finds nothing
ConfigSourceGet_WalkFirst(d, idx, key) ==
    IF ToLower(key) \notin DOMAIN idx THEN NotFound
    ELSE LET index_key == idx[ToLower(key)] IN
         IF Walk(d, Split(index_key)).exists THEN Walk(d, Split(index_key))
         ELSE IF index_key \in DOMAIN d THEN Found(d[index_key])
         ELSE NotFound

\* ConfigSource.Get without lowercasing the key for the index lookup
ConfigSourceGet_NoLower(d, idx, key) ==
    IF key \notin DOMAIN idx THEN NotFound
    ELSE LET index_key == idx[key] IN
         IF index_key \in DOMAIN d THEN Found(d[index_key])
         ELSE Walk(d, Split(index_key))

\* ConfigSource.Get: index lookup of the lowercased key, then the literal
\* key, then the walk
ConfigSourceGet(d, idx, key) ==
    IF ToLower(key) \notin DOMAIN idx THEN NotFound
    ELSE LET index_key == idx[ToLower(key)] IN
         IF index_key \in DOMAIN d THEN Found(d[index_key])
         ELSE Walk(d, Split(index_key))

\* the key under which updateIndex indexes a child
JoinedKey(key, child_key) ==
    IF Len(key) > 0 THEN key \o <<".">> \o child_key ELSE key

\* ConfigSource.updateIndex: the set of indexes it can leave behind, one per
\* order in which the range loops visit the children of each nested map
RECURSIVE updateIndex(_, _, _), updateChildren(_, _, _, _)
updateIndex(idx, key, val) ==
    IF val.t = "nil" THEN {idx}
    ELSE LET idx1 == Put(idx, ToLower(key), key) IN
         IF ~IsMap(val) THEN {idx1}
         ELSE updateChildren({idx1}, key, val.m, DOMAIN val.m)

updateChildren(idxs, key, m, todo) ==
    IF todo = {} THEN idxs
    ELSE UNION {updateChildren(
                    UNION {updateIndex(i, JoinedKey(key, c), m[c]) : i \in idxs},
                    key, m, todo \ {c}) : c \in todo}

\* ConfigSource.UpdateIndices: updateIndex over every top-level entry, in any
\* order, on top of the index as it is (it is not cleared)
RECURSIVE UpdateIndicesFrom(_, _, _)
UpdateIndicesFrom(idxs, d, todo) ==
    IF todo = {} THEN idxs
    ELSE UNION {UpdateIndicesFrom(
                    UNION {updateIndex(i, k, d[k]) : i \in idxs},
                    d, todo \ {k}) : k \in todo}

UpdateIndices(idx, d) == UpdateIndicesFrom({idx}, d, DOMAIN d)

\* ConfigSource.Set: the stores <<data, index>> it can produce
ConfigSourceSet(d, idx, key, val) ==
    {[data |-> Put(d, key, val), index |-> i] : i \in updateIndex(idx, key, val)}

\* ConfigSource.FromStringMap: the stores it can produce
FromStringMap(idx, tree) ==
    {[data |-> tree, index |-> i] : i \in UpdateIndices(idx, tree)}

\* maps.CollectKeys(data, "", -1): every path reachable by recursive descent
RECURSIVE CollectKeys(_, _)
CollectKeys(m, prefix) ==
    UNION {LET path == IF Len(prefix) > 0 THEN prefix \o <<".">> \o k ELSE k IN
           {path} \cup (IF IsMap(m[k]) THEN CollectKeys(m[k].m, path) ELSE {})
           : k \in DOMAIN m}

\* maps.Merge(base, overlay): recursive, right-biased deep merge
RECURSIVE Merge(_, _)
Merge(base, overlay) ==
    [k \in DOMAIN base \cup DOMAIN overlay |->
        IF k \notin DOMAIN overlay THEN base[k]
        ELSE IF k \notin DOMAIN base THEN overlay[k]
        ELSE IF IsMap(base[k]) /\ IsMap(overlay[k])
             THEN M(Merge(base[k].m, overlay[k].m))
             ELSE overlay[k]]

-----------------------------------------------------------------------------
(* source.EnvSource and source.PFlagSource *)

\* os.Getenv
Getenv(env, name) == IF name \in DOMAIN env THEN env[name] ELSE ""

\* EnvSource.Bind(input...): the index after the call
Bind(idx, input) ==
    IF Len(input) = 0 THEN idx
    ELSE LET key == IF Len(input) = 1 THEN input[1] ELSE input[2] IN
         Put(idx, ToLower(key), envamize(key))

\* EnvSource.Get reporting every registered key as found, its variable empty
\* or not
EnvSourceGet_EmptyFound(idx, env, key) ==
    IF key \in DOMAIN idx THEN Found(S(Getenv(env, idx[key]))) ELSE NotFound

\* EnvSource.Get: the key is looked up as given
EnvSourceGet(idx, env, key) ==
    LET envkey == IF key \in DOMAIN idx THEN idx[key] ELSE <<>>
        val == Getenv(env, envkey) IN
    IF val # "" THEN Found(S(val)) ELSE NotFound

\* PFlagSource.Set
PFlagSourceSet(idx, key, flag) == Put(idx, ToLower(key), flag)

\* PFlagSource.Get: found only when the bound flag reports Changed
PFlagSourceGet(idx, fl, key) ==
    IF ToLower(key) \in DOMAIN idx /\ fl[idx[ToLower(key)]].Changed
    THEN Found(S(fl[idx[ToLower(key)]].Value))
    ELSE NotFound

-----------------------------------------------------------------------------
(* ConfigManager queries, over an explicit state st *)

\* Find with the environment consulted before the flags
Find_EnvFirst(st, key) ==
    IF EnvSourceGet(st.envIndex, st.environ, key).exists
    THEN EnvSourceGet(st.envIndex, st.environ, key).val
    ELSE IF PFlagSourceGet(st.pflagIndex, st.flags, key).exists
    THEN PFlagSourceGet(st.pflagIndex, st.flags, key).val
    ELSE IF ConfigSourceGet(st.data, st.index, key).exists
    THEN ConfigSourceGet(st.data, st.index, key).val
    ELSE Nil

\* Find laying the environment's values for the children of a map over the
\* map it returns
Find_Overlay(st, key) ==
    LET val == Find_EnvFirst(st, key)
        under(j) == EnvSourceGet(st.envIndex, st.environ, key \o <<".">> \o j) IN
    IF PFlagSourceGet(st.pflagIndex, st.flags, key).exists
    THEN PFlagSourceGet(st.pflagIndex, st.flags, key).val
    ELSE IF IsMap(val)
    THEN M([j \in DOMAIN val.m |->
               IF under(j).exists THEN under(j).val ELSE val.m[j]])
    ELSE val

\* ConfigManager.Find
Find(st, key) ==
    IF PFlagSourceGet(st.pflagIndex, st.flags, key).exists
    THEN PFlagSourceGet(st.pflagIndex, st.flags, key).val
    ELSE IF EnvSourceGet(st.envIndex, st.environ, key).exists
    THEN EnvSourceGet(st.envIndex, st.environ, key).val
    ELSE IF ConfigSourceGet(st.data, st.index, key).exists
    THEN ConfigSourceGet(st.data, st.index, key).val
    ELSE Nil

\* ConfigManager.Get: Find on the key as given; the type switch maps every
\* value to the same value
Get(st, key) == Find(st, key)

\* ConfigManager.IsSet
IsSet(st, key) == Get(st, key) # Nil

\* ConfigManager.GetStringMap
GetStringMap(st, key) == ToStringMap(Get(st, key))

\* ConfigManager.AllKeys: the lowercased keys of the attribute store
AllKeys(st) == {ToLower(x) : x \in CollectKeys(st.data, <<>>)}

\* the manager's state before and after the step being taken
Cur == [data |-> data, index |-> index, envIndex |-> envIndex,
        pflagIndex |-> pflagIndex, environ |-> environ, flags |-> flags]

-----------------------------------------------------------------------------
(* Documents and files *)

DocNested == [k \in {Ka} |-> M([j \in {Kb} |-> S("f1")])]
DocScalar == [k \in {Ka} |-> S("f2")]
DocExtra == [k \in {Ka} |-> M([j \in {Kx} |-> S("f3")])]
DocList == [k \in {Ka, Kb} |-> IF k = Ka THEN L(<<"l1", "l2">>) ELSE Nil]
DocList2 == [k \in {Ka} |-> L(<<"l3">>)]
DocUpper == [k \in {KA} |-> S("f5")]

\* decoded documents handed to MergeAttributes
Docs == {DocNested, DocScalar, DocExtra, DocList, DocList2, DocUpper}

PBase == <<"base", ".", "yaml">>
PMissing == <<"missing", ".", "yaml">>
PYml == <<"base", ".", "yml">>
PBad == <<"bad", ".", "yaml">>
PIni == <<"conf", ".", "ini">>

Paths == {PBase, PMissing, PYml, PBad, PIni}

\* the files on disk: whether ioutil.ReadFile succeeds, whether the content is
\* well formed, and the document it decodes to
FileSystem ==
    [p \in Paths |->
        CASE p = PBase -> [exists |-> TRUE, wellformed |-> TRUE, doc |-> DocNested]
          [] p = PYml -> [exists |-> TRUE, wellformed |-> TRUE, doc |-> DocNested]
          [] p = PBad -> [exists |-> TRUE, wellformed |-> FALSE, doc |-> EmptyMap]
          [] p = PIni -> [exists |-> TRUE, wellformed |-> TRUE, doc |-> DocScalar]
          [] OTHER -> [exists |-> FALSE, wellformed |-> FALSE, doc |-> EmptyMap]]

\* the sequences over S0 of length at most n
RECURSIVE SeqsUpTo(_, _)
SeqsUpTo(S0, n) ==
    IF n = 0 THEN {<<>>}
    ELSE LET shorter == SeqsUpTo(S0, n - 1) IN
         shorter \cup {Append(q, x) : q \in {r \in shorter : Len(r) = n - 1}, x \in S0}

\* the lists of paths handed to ReadPaths: no path twice
PathLists ==
    {q \in SeqsUpTo(Paths, MaxPaths) \ {<<>>} :
        \A i, j \in 1..Len(q) : i # j => q[i] # q[j]}

\* filepath.Ext: the suffix from the last dot on
RECURSIVE LastDot(_, _)
LastDot(path, i) ==
    IF i = 0 THEN 0 ELSE IF path[i] = "." THEN i ELSE LastDot(path, i - 1)

Ext(path) ==
    IF LastDot(path, Len(path)) = 0 THEN <<>>
    ELSE SubSeq(path, LastDot(path, Len(path)), Len(path))

\* reader.getConfigType
getConfigType(path) == IF Len(Ext(path)) > 1 THEN Ext(path)[2] ELSE ""

ReadOk(doc) == [loaded |-> doc, err |-> "", fatal |-> FALSE]
ReadErr(kind) == [loaded |-> EmptyMap, err |-> kind, fatal |-> FALSE]
ReadFatal == [loaded |-> EmptyMap, err |-> "", fatal |-> TRUE]

\* ConfigReader.ExportAs: a decoder per format; a decoding error ends the
\* process through jww.ERROR.Fatalf
ExportAs(format, file) ==
    IF format \in {"yaml", "json", "toml"}
    THEN IF file.wellformed THEN ReadOk(file.doc) ELSE ReadFatal
    ELSE ReadErr("unsupported")

\* reader.Readfile
Readfile(path) ==
    IF ~FileSystem[path].exists THEN ReadErr("read")
    ELSE ExportAs(getConfigType(path), FileSystem[path])

\* the loop of ConfigManager.ReadPaths from path i on: the outcomes it can
\* end in (the store, the collected errors, whether the process was ended)
RECURSIVE ReadLoop(_, _, _, _, _)
ReadLoop(paths, i, merged_config, store, errs) ==
    IF i > Len(paths)
    THEN {[data |-> store.data, index |-> store.index, errs |-> errs, fatal |-> FALSE]}
    ELSE LET r == Readfile(paths[i]) IN
         IF r.fatal
         THEN {[data |-> store.data, index |-> store.index, errs |-> errs, fatal |-> TRUE]}
         ELSE IF r.err # ""
         THEN {[data |-> store.data, index |-> store.index,
                errs |-> Append(errs, [path |-> paths[i], kind |-> r.err]),
                fatal |-> FALSE]}
         ELSE LET merged == Merge(merged_config, ToStringMap(M(r.loaded))) IN
              UNION {ReadLoop(paths, i + 1, merged, s, errs)
                     : s \in FromStringMap(store.index, merged)}

-----------------------------------------------------------------------------
(* The state machine *)

NoOp == [name |-> "init", key |-> <<>>, val |-> Nil, doc |-> EmptyMap,
         paths |-> <<>>, env |-> <<>>, flag |-> "", errs |-> <<>>,
         pre |-> [data |-> EmptyMap, index |-> EmptyMap],
         before |-> [data |-> EmptyMap, doc |-> EmptyMap]]

\* what a MergeAttributes records of the MergeAttributes right before it: the
\* tree that one started from and its document
Before == IF op.name = "MergeAttributes"
          THEN [data |-> op.pre.data, doc |-> op.doc]
          ELSE NoOp.before

Init ==
    /\ data = EmptyMap
    /\ index = EmptyMap
    /\ envIndex = EmptyMap
    /\ pflagIndex = EmptyMap
    /\ environ \in InitialEnvirons
    /\ flags = [f \in FlagIds |-> [Value |-> FlagInit(f), Changed |-> FALSE]]
    /\ alive = TRUE
    /\ nops = 0
    /\ op = NoOp

CanStep == alive /\ nops < MaxOps

\* a load of the paths fits in the operations left
CanLoad(paths) == alive /\ nops + Len(paths) <= MaxOps

\* ConfigManager.Set
Set(key, val) ==
    /\ CanStep
    /\ \E s \in ConfigSourceSet(data, index, key, val) :
           /\ data' = s.data
           /\ index' = s.index
    /\ nops' = nops + 1
    /\ op' = [NoOp EXCEPT !.name = "Set", !.key = key, !.val = val]
    /\ UNCHANGED <<envIndex, pflagIndex, environ, flags, alive>>

\* SetDefault looking for the key in the attribute store alone
SetDefaultStores_StoreOnly(st, key, val) ==
    IF ConfigSourceGet(st.data, st.index, key).val = Nil
    THEN ConfigSourceSet(st.data, st.index, key, val)
    ELSE {[data |-> st.data, index |-> st.index]}

\* SetDefault writing whether or not the key is set
SetDefaultStores_Always(st, key, val) ==
    ConfigSourceSet(st.data, st.index, key, val)

\* ConfigManager.SetDefault on state st: the stores it can produce
SetDefaultStores(st, key, val) ==
    IF ~IsSet(st, key)
    THEN ConfigSourceSet(st.data, st.index, key, val)
    ELSE {[data |-> st.data, index |-> st.index]}

\* ConfigManager.SetDefault
SetDefault(key, val) ==
    /\ CanStep
    /\ \E s \in SetDefaultStores(Cur, key, val) :
           /\ data' = s.data
           /\ index' = s.index
    /\ nops' = nops + 1
    /\ op' = [NoOp EXCEPT !.name = "SetDefault", !.key = key, !.val = val]
    /\ UNCHANGED <<envIndex, pflagIndex, environ, flags, alive>>

\* the default BindPFlag hands to SetDefault, by the type of the flag
FlagDefault(type, str) ==
    CASE type \in {"int", "int8", "int16", "int32", "int64"} -> ToInt(str)
      [] type = "bool" -> ToBool(str)
      [] OTHER -> S(str)

\* BindPFlag writing the flag's value whether or not the key is set
BindPFlag_Overwrite(key, flag) ==
    /\ CanStep
    /\ pflagIndex' = PFlagSourceSet(pflagIndex, key, flag)
    /\ \E s \in SetDefaultStores_Always(
                    [Cur EXCEPT !.pflagIndex = PFlagSourceSet(pflagIndex, key, flag)],
                    key, FlagDefault(FlagType(flag), flags[flag].Value)) :
           /\ data' = s.data
           /\ index' = s.index
    /\ nops' = nops + 1
    /\ op' = [NoOp EXCEPT !.name = "BindPFlag", !.key = key, !.flag = flag]
    /\ UNCHANGED <<envIndex, environ, flags, alive>>

\* ConfigManager.BindPFlag: registers the flag, then SetDefault
BindPFlag(key, flag) ==
    /\ CanStep
    /\ pflagIndex' = PFlagSourceSet(pflagIndex, key, flag)
    /\ \E s \in SetDefaultStores(
                    [Cur EXCEPT !.pflagIndex = PFlagSourceSet(pflagIndex, key, flag)],
                    key, FlagDefault(FlagType(flag), flags[flag].Value)) :
           /\ data' = s.data
           /\ index' = s.index
    /\ nops' = nops + 1
    /\ op' = [NoOp EXCEPT !.name = "BindPFlag", !.key = key, !.flag = flag]
    /\ UNCHANGED <<envIndex, environ, flags, alive>>

\* ConfigManager.BindEnv(input...)
BindEnv(input) ==
    /\ CanStep
    /\ envIndex' = Bind(envIndex, input)
    /\ nops' = nops + 1
    /\ op' = [NoOp EXCEPT !.name = "BindEnv", !.key = input[1],
                          !.env = IF Len(input) > 1 THEN input[2] ELSE <<>>]
    /\ UNCHANGED <<data, index, pflagIndex, environ, flags, alive>>

\* the loop of ConfigManager.AutomaticEnv over the keys still to bind
RECURSIVE BindAll(_, _)
BindAll(idx, keys) ==
    IF keys = {} THEN idx
    ELSE LET x == CHOOSE y \in keys : TRUE IN
         BindAll(Bind(idx, <<x>>), keys \ {x})

\* AutomaticEnv binding the top-level keys of the tree only
AutomaticEnv_TopLevel ==
    /\ CanStep
    /\ envIndex' = BindAll(envIndex, {ToLower(x) : x \in DOMAIN data})
    /\ nops' = nops + 1
    /\ op' = [NoOp EXCEPT !.name = "AutomaticEnv"]
    /\ UNCHANGED <<data, index, pflagIndex, environ, flags, alive>>

\* ConfigManager.AutomaticEnv
AutomaticEnv ==
    /\ CanStep
    /\ envIndex' = BindAll(envIndex, AllKeys(Cur))
    /\ nops' = nops + 1
    /\ op' = [NoOp EXCEPT !.name = "AutomaticEnv"]
    /\ UNCHANGED <<data, index, pflagIndex, environ, flags, alive>>

\* MergeAttributes laying the document over the top level only: a nested tree
\* of the document replaces the store's nested tree
MergeAttributes_Shallow(val) ==
    /\ CanStep
    /\ \E s \in FromStringMap(index,
                   [k \in DOMAIN data \cup DOMAIN val |->
                       IF k \in DOMAIN val THEN val[k] ELSE data[k]]) :
           /\ data' = s.data
           /\ index' = s.index
    /\ nops' = nops + 1
    /\ op' = [NoOp EXCEPT !.name = "MergeAttributes", !.doc = val,
                          !.pre = [data |-> data, index |-> index],
                          !.before = Before]
    /\ UNCHANGED <<envIndex, pflagIndex, environ, flags, alive>>

\* MergeAttributes merging its document into the document of the merge
\* right before it, and the result onto the tree that merge started from
MergeAttributes_Regrouped(val) ==
    /\ CanStep
    /\ \E s \in FromStringMap(index,
                   IF op.name = "MergeAttributes"
                   THEN Merge(op.pre.data, Merge(op.doc, ToStringMap(M(val))))
                   ELSE Merge(data, ToStringMap(M(val)))) :
           /\ data' = s.data
           /\ index' = s.index
    /\ nops' = nops + 1
    /\ op' = [NoOp EXCEPT !.name = "MergeAttributes", !.doc = val,
                          !.pre = [data |-> data, index |-> index],
                          !.before = Before]
    /\ UNCHANGED <<envIndex, pflagIndex, environ, flags, alive>>

\* MergeAttributes with the arguments of Merge swapped: the store wins
MergeAttributes_BaseWins(val) ==
    /\ CanStep
    /\ \E s \in FromStringMap(index, Merge(ToStringMap(M(val)), data)) :
           /\ data' = s.data
           /\ index' = s.index
    /\ nops' = nops + 1
    /\ op' = [NoOp EXCEPT !.name = "MergeAttributes", !.doc = val,
                          !.pre = [data |-> data, index |-> index],
                          !.before = Before]
    /\ UNCHANGED <<envIndex, pflagIndex, environ, flags, alive>>

\* ConfigManager.MergeAttributes
MergeAttributes(val) ==
    /\ CanStep
    /\ \E s \in FromStringMap(index, Merge(data, ToStringMap(M(val)))) :
           /\ data' = s.data
           /\ index' = s.index
    /\ nops' = nops + 1
    /\ op' = [NoOp EXCEPT !.name = "MergeAttributes", !.doc = val,
                          !.pre = [data |-> data, index |-> index],
                          !.before = Before]
    /\ UNCHANGED <<envIndex, pflagIndex, environ, flags, alive>>

\* ReadPaths putting the store back as it was when a path fails
ReadPaths_Rollback(paths) ==
    /\ CanLoad(paths)
    /\ \E r \in ReadLoop(paths, 1, data, [data |-> data, index |-> index], <<>>) :
           /\ data' = IF r.errs = <<>> THEN r.data ELSE data
           /\ index' = IF r.errs = <<>> THEN r.index ELSE index
           /\ alive' = ~r.fatal
           /\ op' = [NoOp EXCEPT !.name = "ReadPaths", !.paths = paths,
                                 !.errs = r.errs,
                                 !.pre = [data |-> data, index |-> index]]
    /\ nops' = nops + Len(paths)
    /\ UNCHANGED <<envIndex, pflagIndex, environ, flags>>

\* ConfigManager.ReadPaths
ReadPaths(paths) ==
    /\ CanLoad(paths)
    /\ \E r \in ReadLoop(paths, 1, data, [data |-> data, index |-> index], <<>>) :
           /\ data' = r.data
           /\ index' = r.index
           /\ alive' = ~r.fatal
           /\ op' = [NoOp EXCEPT !.name = "ReadPaths", !.paths = paths,
                                 !.errs = r.errs,
                                 !.pre = [data |-> data, index |-> index]]
    /\ nops' = nops + Len(paths)
    /\ UNCHANGED <<envIndex, pflagIndex, environ, flags>>

\* os.Setenv by the program or its caller
Setenv(name, val) ==
    /\ CanStep
    /\ environ[name] # val
    /\ environ' = [environ EXCEPT ![name] = val]
    /\ nops' = nops + 1
    /\ op' = [NoOp EXCEPT !.name = "Setenv", !.env = name]
    /\ UNCHANGED <<data, index, envIndex, pflagIndex, flags, alive>>

\* the command line layer parses a flag: its value is set and it reports
\* Changed from then on
FlagParse(flag, val) ==
    /\ CanStep
    /\ flags' = [flags EXCEPT ![flag] = [Value |-> val, Changed |-> TRUE]]
    /\ nops' = nops + 1
    /\ op' = [NoOp EXCEPT !.name = "FlagParse", !.flag = flag]
    /\ UNCHANGED <<data, index, envIndex, pflagIndex, environ, alive>>

\* Config.Reset: assigns a new instance to its own receiver variable; the
\* instance of the caller is left as it is
Reset ==
    /\ CanStep
    /\ nops' = nops + 1
    /\ op' = [NoOp EXCEPT !.name = "Reset"]
    /\ UNCHANGED <<data, index, envIndex, pflagIndex, environ, flags, alive>>

Next ==
    \/ \E k \in Keys, v \in SetVals : Set(k, v)
    \/ \E k \in Keys, v \in SetVals : SetDefault(k, v)
    \/ \E k \in Keys, f \in FlagIds : BindPFlag(k, f)
    \/ \E k \in Keys : BindEnv(<<k>>)
    \/ \E k \in Keys, e \in ExplicitEnvNames : BindEnv(<<k, e>>)
    \/ AutomaticEnv
    \/ \E d \in Docs : MergeAttributes(d)
    \/ \E ps \in PathLists : ReadPaths(ps)
    \/ \E n \in EnvNames, v \in EnvVals : Setenv(n, v)
    \/ \E f \in FlagIds : \E v \in FlagVals(f) : FlagParse(f, v)
    \/ Reset

Spec == Init /\ [][Next]_vars

-----------------------------------------------------------------------------
(* Vocabulary of the properties *)

\* the flag tier reports key k: a flag is registered for k and reports Changed
FlagTierHas(k) ==
    /\ ToLower(k) \in DOMAIN pflagIndex
    /\ flags[pflagIndex[ToLower(k)]].Changed

FlagTierVal(k) == S(flags[pflagIndex[ToLower(k)]].Value)

\* the environment tier reports key k: k is registered and its variable is
\* not empty
EnvTierHas(k) ==
    /\ k \in DOMAIN envIndex
    /\ Getenv(environ, envIndex[k]) # ""

EnvTierVal(k) == S(Getenv(environ, envIndex[k]))

\* what the attribute store answers for key k
AttrTier(k) == ConfigSourceGet(data, index, k)

IsLoad(o) == o.name \in {"MergeAttributes", "ReadPaths"}

\* a path that Readfile decodes into a document
Readable(p) == Readfile(p).err = "" /\ ~Readfile(p).fatal

\* a path for which Readfile returns an error
Failing(p) == Readfile(p).err # ""

\* every path of the list is either readable or a file that does not exist
OnlyMissingFail(paths) ==
    \A i \in 1..Len(paths) : Readable(paths[i]) \/ ~FileSystem[paths[i]].exists

\* every path of the list is readable, or a file that does not exist, or a
\* file whose extension is not among the supported ones
OnlyPlainFailures(paths) ==
    \A i \in 1..Len(paths) :
        \/ Readable(paths[i])
        \/ ~FileSystem[paths[i]].exists
        \/ getConfigType(paths[i]) \notin SupportedExts

\* the left fold of Merge over the documents of the paths i..Len(paths) that
\* are readable
RECURSIVE FoldMerge(_, _, _)
FoldMerge(tree, paths, i) ==
    IF i > Len(paths) THEN tree
    ELSE IF Readable(paths[i])
    THEN FoldMerge(Merge(tree, Readfile(paths[i]).loaded), paths, i + 1)
    ELSE FoldMerge(tree, paths, i + 1)

\* the position of the first path of the list for which Readfile returns an
\* error, 0 if there is none
FirstFailing(paths) ==
    IF \E i \in 1..Len(paths) : Failing(paths[i])
    THEN CHOOSE i \in 1..Len(paths) :
             /\ Failing(paths[i])
             /\ \A j \in 1..(i - 1) : ~Failing(paths[j])
    ELSE 0

\* the document a load operation laid over the store
LoadedDoc(o) ==
    IF o.name = "MergeAttributes" THEN o.doc
    ELSE FoldMerge(EmptyMap, o.paths, 1)

\* the value a document defines for path k: the literal key k, or the value
\* reached by walking the segments of k
DocValue(doc, k) == IF k \in DOMAIN doc THEN Found(doc[k]) ELSE Walk(doc, Split(k))

-----------------------------------------------------------------------------
(* Properties *)

\* C1: in every reachable state and for every key, Get returns the value of
\* the first tier that reports the key present: the bound flag's value when
\* the flag reports Changed; otherwise the registered environment variable's
\* value when it is not empty; otherwise the attribute store's value;
\* otherwise nil.  A tier that reports the key always masks the later ones.
C1_Precedence ==
    \A k \in QueryKeys :
        /\ FlagTierHas(k) => Get(Cur, k) = FlagTierVal(k)
        /\ (~FlagTierHas(k) /\ EnvTierHas(k)) => Get(Cur, k) = EnvTierVal(k)
        /\ (~FlagTierHas(k) /\ ~EnvTierHas(k) /\ AttrTier(k).exists)
               => Get(Cur, k) = AttrTier(k).val
        /\ (~FlagTierHas(k) /\ ~EnvTierHas(k) /\ ~AttrTier(k).exists)
               => Get(Cur, k) = Nil

\* C1 witness: one key is supplied by all three tiers with three different
\* values, and Get answers with the flag's
C1_Witness ==
    \E k \in QueryKeys :
        /\ FlagTierHas(k) /\ EnvTierHas(k) /\ AttrTier(k).exists
        /\ AttrTier(k).val \notin {Nil, FlagTierVal(k), EnvTierVal(k)}
        /\ FlagTierVal(k) # EnvTierVal(k)
        /\ Get(Cur, k) = FlagTierVal(k)

\* C5 (as claimed): Get lowercases the key before consulting any tier, so for
\* a key bound to a non-empty environment variable (and not supplied by a
\* Changed flag) Get returns the environment value for every case variant of
\* the key.
C5_GetLowercasesKey ==
    \A k \in QueryKeys :
        (/\ ToLower(k) \in DOMAIN envIndex
         /\ Getenv(environ, envIndex[ToLower(k)]) # ""
         /\ ~FlagTierHas(k))
        => \A k2 \in Variants(k) :
               Get(Cur, k2) = S(Getenv(environ, envIndex[ToLower(k)]))

\* C2 (as claimed): for every key k, dotted paths included, after
\* SetDefault(k, d) on a fresh resolver Get(k) returns d, and after then
\* loading a document that defines k with value f, Get(k) returns f (stated
\* for defaults d that are not nested trees, which a document replaces).
C2_FileOverridesDefault ==
    [][(op.name = "SetDefault" /\ nops = 1 /\ ~IsMap(op.val)) =>
          /\ Get(Cur, op.key) = op.val
          /\ (/\ IsLoad(op') /\ alive' /\ op'.errs = <<>>
              /\ DocValue(LoadedDoc(op'), op.key).exists)
             => Get(Cur', op.key) = DocValue(LoadedDoc(op'), op.key).val]_vars

\* C3 (as claimed): for every key k and value v, with no flag or environment
\* binding supplying k, Get(k) returns v right after Set(k, v), whatever was
\* loaded or stored before.
C3_SetWinsOverFiles ==
    (op.name = "Set" /\ ~FlagTierHas(op.key) /\ ~EnvTierHas(op.key))
        => Get(Cur, op.key) = op.val

\* C4: attribute keys are case-insensitive and the stored casing is kept:
\* keys that differ only in letter case get the same answer from the
\* attribute store, and from Get when the environment tier supplies neither;
\* Set(k, v) stores v under k as written and, for v other than null, every case
\* variant of k then resolves to v; a load keeps the document's keys as
\* written and, on an empty store, every case variant of a path the document
\* defines with a value other than null resolves to that value.
C4_CaseInsensitive ==
    /\ \A k \in QueryKeys : \A k2 \in Variants(k) :
           /\ AttrTier(k2) = AttrTier(k)
           /\ (~EnvTierHas(k) /\ ~EnvTierHas(k2)) => Get(Cur, k2) = Get(Cur, k)
    /\ op.name = "Set" =>
           /\ op.key \in DOMAIN data /\ data[op.key] = op.val
           /\ op.val # Nil => \A k2 \in Variants(op.key) : AttrTier(k2) = Found(op.val)
    /\ (IsLoad(op) /\ alive /\ op.errs = <<>>) =>
           /\ DOMAIN LoadedDoc(op) \subseteq DOMAIN data
           /\ op.pre = NoOp.pre =>
                  \A k \in QueryKeys :
                      (DocValue(LoadedDoc(op), k).exists
                           /\ DocValue(LoadedDoc(op), k).val # Nil)
                      => \A k2 \in Variants(k) : AttrTier(k2) = DocValue(LoadedDoc(op), k)

\* C4 witness: Set("A.B", v) was the last operation, the tree keeps the key
\* "A.B" as written (there is no key "a.b") and the lowercase path "a.b"
\* resolves to v
C4_Witness ==
    /\ op.name = "Set" /\ op.key = KAB /\ op.val # Nil
    /\ KAB \in DOMAIN data /\ Kab \notin DOMAIN data
    /\ AttrTier(Kab) = Found(op.val)
    /\ Get(Cur, Kab) = op.val

C7_ReadPathsContinues ==
    (op.name = "ReadPaths" /\ alive /\ OnlyMissingFail(op.paths))
        => data = FoldMerge(op.pre.data, op.paths, 1)

\* C8 (as claimed): ReadPaths returns nil iff every path loaded; otherwise the
\* aggregate LoadError holds exactly one error for each path that failed
\* (stated for lists whose failing paths are files that do not exist or
\* have an extension outside the supported ones).
C8_OneErrorPerFailingPath ==
    (op.name = "ReadPaths" /\ alive /\ OnlyPlainFailures(op.paths)) =>
        /\ (op.errs = <<>>) <=> (\A i \in 1..Len(op.paths) : Readable(op.paths[i]))
        /\ \A p \in Paths :
               (\E i \in 1..Len(op.paths) : op.paths[i] = p /\ Failing(p))
                   => \E j \in 1..Len(op.errs) : op.errs[j].path = p

\* C9: when a path of ReadPaths fails, the documents of the paths before it
\* stay merged: the store ReadPaths leaves is a store that ReadPaths of the
\* paths before the failing one leaves, its tree is the fold of Merge over
\* their documents, and the error returned is not nil and holds the failing
\* path only.
C9_PrefixStaysMerged ==
    (op.name = "ReadPaths" /\ alive /\ FirstFailing(op.paths) > 0) =>
        LET i == FirstFailing(op.paths)
            before == SubSeq(op.paths, 1, i - 1) IN
        /\ \E r \in ReadLoop(before, 1, op.pre.data, op.pre, <<>>) :
               /\ r.errs = <<>> /\ ~r.fatal
               /\ r.data = data /\ r.index = index
        /\ data = FoldMerge(op.pre.data, before, 1)
        /\ Len(op.errs) > 0
        /\ \A j \in 1..Len(op.errs) : op.errs[j].path = op.paths[i]

\* C9 witness: ReadPaths("base.yaml", "missing.yaml") on a store without the
\* key of base.yaml: the document of base.yaml is in the tree and the error
\* names missing.yaml
C9_Witness ==
    /\ op.name = "ReadPaths" /\ alive
    /\ op.paths = <<PBase, PMissing>>
    /\ Ka \notin DOMAIN op.pre.data
    /\ Ka \in DOMAIN data /\ data[Ka] = DocNested[Ka]
    /\ op.errs = <<[path |-> PMissing, kind |-> "read"]>>

\* the replace rule of the deep merge, at every depth: for each key of the
\* overlay, unless base and overlay both hold a nested tree there, the merged
\* value is the overlay's value
RECURSIVE ReplaceRule(_, _, _)
ReplaceRule(base, overlay, merged) ==
    \A k \in DOMAIN overlay :
        /\ k \in DOMAIN merged
        /\ IF k \in DOMAIN base /\ IsMap(base[k]) /\ IsMap(overlay[k])
           THEN IsMap(merged[k]) /\ ReplaceRule(base[k].m, overlay[k].m, merged[k].m)
           ELSE merged[k] = overlay[k]

\* C10: deep merge replaces whenever either side is not a nested tree: after
\* a document is merged onto the attribute store, for every key of the
\* document (at any depth) whose value in the store or in the document is a
\* scalar, null or sequence, or that the store lacked, the merged value is
\* exactly the document's value.
C10_MergeReplaces ==
    /\ op.name = "MergeAttributes" => ReplaceRule(op.pre.data, op.doc, data)
    /\ (op.name = "ReadPaths" /\ alive /\ op.errs = <<>> /\ Len(op.paths) = 1)
           => ReplaceRule(op.pre.data, LoadedDoc(op), data)

\* C10 witness: a document whose key "a" holds a sequence was merged onto a
\* tree whose key "a" held another sequence, and the tree now holds the
\* document's sequence
C10_Witness ==
    /\ op.name = "MergeAttributes"
    /\ Ka \in DOMAIN op.pre.data /\ op.pre.data[Ka].t = "l"
    /\ Ka \in DOMAIN op.doc /\ op.doc[Ka].t = "l" /\ op.doc[Ka] # op.pre.data[Ka]
    /\ data[Ka] = op.doc[Ka]

\* the deep merge rule, at every depth: the merged tree has the keys of both
\* sides; a key of the base alone keeps the base's value; a key where both
\* sides hold a nested tree holds the merge of the two; any other key of the
\* overlay holds the overlay's value
RECURSIVE MergeRule(_, _, _)
MergeRule(base, overlay, merged) ==
    /\ DOMAIN merged = DOMAIN base \cup DOMAIN overlay
    /\ \A k \in DOMAIN merged :
           IF k \notin DOMAIN overlay THEN merged[k] = base[k]
           ELSE IF k \in DOMAIN base /\ IsMap(base[k]) /\ IsMap(overlay[k])
           THEN IsMap(merged[k]) /\ MergeRule(base[k].m, overlay[k].m, merged[k].m)
           ELSE merged[k] = overlay[k]

\* C11: deep merge is recursive and right-biased: after a document is merged
\* onto the attribute store, where store and document both held a nested
\* tree the two are merged recursively, every key of the store alone (at any
\* depth) keeps its value, and every key of the document holds the
\* document's value.
C11_MergeRecursive ==
    /\ op.name = "MergeAttributes" => MergeRule(op.pre.data, op.doc, data)
    /\ (op.name = "ReadPaths" /\ alive /\ op.errs = <<>> /\ Len(op.paths) = 1)
           => MergeRule(op.pre.data, LoadedDoc(op), data)

\* C11 witness: {a: {x: "f3"}} was merged onto a tree whose nested tree at
\* "a" held b alone: the nested tree now holds b with its old value and x
\* with the document's
C11_Witness ==
    /\ op.name = "MergeAttributes" /\ op.doc = DocExtra
    /\ Ka \in DOMAIN op.pre.data /\ IsMap(op.pre.data[Ka])
    /\ DOMAIN op.pre.data[Ka].m = {Kb}
    /\ IsMap(data[Ka]) /\ DOMAIN data[Ka].m = {Kb, Kx}
    /\ data[Ka].m[Kb] = op.pre.data[Ka].m[Kb]
    /\ data[Ka].m[Kx] = DocExtra[Ka].m[Kx]

\* C12 (as claimed): merging is idempotent under repetition: when
\* MergeAttributes(d) directly follows MergeAttributes(d), the second merge
\* leaves the attribute tree, and the result of Get for every key, as the
\* first left them.
C12_MergeIdempotent ==
    [][(/\ op.name = "MergeAttributes" /\ op'.name = "MergeAttributes"
        /\ op'.doc = op.doc)
       => /\ data' = data
          /\ \A k \in QueryKeys : Get(Cur', k) = Get(Cur, k)]_vars

\* the part of C12 about the tree alone: the second merge of the same
\* document leaves the attribute tree unchanged
C12_TreeIdempotent ==
    [][(/\ op.name = "MergeAttributes" /\ op'.name = "MergeAttributes"
        /\ op'.doc = op.doc)
       => data' = data]_vars

C14_EnvPresence ==
    \A k \in QueryKeys :
        LET got == EnvSourceGet(envIndex, environ, k)
            present == k \in DOMAIN envIndex /\ Getenv(environ, envIndex[k]) # "" IN
        /\ got.exists <=> present
        /\ present => got.val = S(Getenv(environ, envIndex[k]))
        /\ ~present =>
               /\ got = NotFound
               /\ ~FlagTierHas(k) => Get(Cur, k) = AttrTier(k).val

\* C14 witness: "a.b" is registered, its variable A_B is empty, the store
\* holds a value for "a.b", and Get returns the store's value
C14_Witness ==
    /\ Kab \in DOMAIN envIndex /\ envIndex[Kab] = envamize(Kab)
    /\ Getenv(environ, envIndex[Kab]) = ""
    /\ ~EnvSourceGet(envIndex, environ, Kab).exists
    /\ AttrTier(Kab).exists /\ AttrTier(Kab).val # Nil
    /\ Get(Cur, Kab) = AttrTier(Kab).val

\* C15 (as claimed): BindEnv(key, envVar) binds the key to envVar: right
\* after it, when envVar is not empty and no Changed flag supplies the key,
\* Get of the lowercased key returns the value of envVar; BindEnv(key) binds
\* the key to the uppercased key with '.' replaced by '_'.
C15_ExplicitEnvName ==
    op.name = "BindEnv" =>
        IF op.env = <<>>
        THEN /\ ToLower(op.key) \in DOMAIN envIndex
             /\ envIndex[ToLower(op.key)] = ToUpper(ReplaceDots(op.key))
        ELSE (Getenv(environ, op.env) # "" /\ ~FlagTierHas(op.key))
                 => Get(Cur, ToLower(op.key)) = S(Getenv(environ, op.env))

\* C16: flag precedence over time.  BindPFlag(key, flag) registers the flag
\* for the key; it leaves the attribute store alone when the key, with the
\* flag registered, already has a value, and otherwise stores the flag's
\* value at bind time, converted by the flag's type, as the key's default.
\* From then on, while the flag is not Changed and the environment tier
\* does not supply the key, Get(key) is the attribute store's value; once
\* the flag is Changed, Get of the key and of every case variant is the
\* flag's current string value, whatever the store holds.
C16_FlagOverTime ==
    [][/\ op'.name = "BindPFlag" =>
              LET k == op'.key
                  f == op'.flag
                  had == Get([Cur EXCEPT !.pflagIndex = pflagIndex'], k) IN
              /\ pflagIndex'[ToLower(k)] = f
              /\ had # Nil => (data' = data /\ index' = index)
              /\ had = Nil =>
                     /\ ConfigSourceGet(data', index', k)
                            = Found(FlagDefault(FlagType(f), flags[f].Value))
                     /\ Get(Cur', k) = FlagDefault(FlagType(f), flags[f].Value)
       /\ \A k \in QueryKeys :
              ToLower(k) \in DOMAIN pflagIndex' =>
                  LET f == pflagIndex'[ToLower(k)] IN
                  IF flags'[f].Changed
                  THEN \A k2 \in Variants(k) : Get(Cur', k2) = S(flags'[f].Value)
                  ELSE ~EnvSourceGet(envIndex', environ', k).exists
                           => Get(Cur', k) = ConfigSourceGet(data', index', k).val]_vars

\* C16 witness: "a.b" holds "f1" from a loaded document, the string flag was
\* bound to it (no default written) and then parsed: Get of "a.b" and of
\* "A.B" is the flag's new value
C16_Witness ==
    /\ op.name = "FlagParse" /\ op.flag = "fs"
    /\ Kab \in DOMAIN pflagIndex /\ pflagIndex[Kab] = "fs"
    /\ flags["fs"].Changed /\ flags["fs"].Value = "p2"
    /\ AttrTier(Kab) = Found(S("f1"))
    /\ Get(Cur, Kab) = S("p2") /\ Get(Cur, KAB) = S("p2")

\* C17 (as claimed): a Set on a dotted path is visible through the parent
\* path: when a load left a nested tree holding "b" at "a" and Set("a.b", v)
\* follows, with v other than null and neither key supplied by a flag or the
\* environment, the map GetStringMap("a") returns holds v at "b", as
\* Get("a.b") returns v.
C17_SetVisibleThroughParent ==
    [][(/\ IsLoad(op) /\ alive /\ op.errs = <<>>
        /\ Ka \in DOMAIN data /\ IsMap(data[Ka]) /\ Kb \in DOMAIN data[Ka].m
        /\ op'.name = "Set" /\ op'.key = Kab /\ op'.val # Nil
        /\ \A k \in {Ka, Kab} : ~FlagTierHas(k) /\ ~EnvTierHas(k))
       => /\ Get(Cur', Kab) = op'.val
          /\ Kb \in DOMAIN GetStringMap(Cur', Ka)
          /\ GetStringMap(Cur', Ka)[Kb] = op'.val]_vars

\* C18 (as claimed): malformed content is a collected error, never a fatal
\* one: the process keeps running after every ReadPaths, and when the first
\* path of the list holds malformed content the error returned holds an
\* error for that path.
C18_MalformedIsCollected ==
    op.name = "ReadPaths" =>
        /\ alive
        /\ (FileSystem[op.paths[1]].exists /\ ~FileSystem[op.paths[1]].wellformed)
               => \E j \in 1..Len(op.errs) : op.errs[j].path = op.paths[1]

\* C19 (as claimed): every supported extension is decodable: ReadPaths
\* returns the unsupported-format error only for a path whose extension is
\* outside SupportedExts, and a well-formed file with a supported extension,
\* given alone, is decoded and merged without an error.
C19_SupportedExtsDecodable ==
    (op.name = "ReadPaths" /\ alive) =>
        /\ \A j \in 1..Len(op.errs) :
               op.errs[j].kind = "unsupported"
                   => getConfigType(op.errs[j].path) \notin SupportedExts
        /\ (/\ Len(op.paths) = 1
            /\ FileSystem[op.paths[1]].exists /\ FileSystem[op.paths[1]].wellformed
            /\ getConfigType(op.paths[1]) \in SupportedExts)
               => /\ op.errs = <<>>
                  /\ data = Merge(op.pre.data, FileSystem[op.paths[1]].doc)

\* C20 (as claimed): a path whose value is null still receives an index
\* entry: right after Set(k, null), and right after a merge whose tree holds
\* null at a top-level key k, the index maps the lowercased k to a key of
\* the tree that lowercases to it, and ConfigSource.Get(k) reports the key
\* as existing.
C20_NullIsIndexed ==
    /\ (op.name = "Set" /\ op.val = Nil) =>
           /\ ToLower(op.key) \in DOMAIN index
           /\ index[ToLower(op.key)] = op.key
           /\ AttrTier(op.key).exists
    /\ op.name = "MergeAttributes" =>
           \A k \in DOMAIN data :
               data[k] = Nil =>
                   /\ ToLower(k) \in DOMAIN index
                   /\ ToLower(index[ToLower(k)]) = ToLower(k)
                   /\ AttrTier(k).exists

\* C21 (as claimed): FromStringMap rebuilds the index from scratch: right
\* after a load that ran FromStringMap, every entry of the index is for the
\* lowercased form of a path reachable in the tree.
C21_IndexRebuilt ==
    (/\ IsLoad(op) /\ alive
     /\ (op.name = "ReadPaths" => Readable(op.paths[1])))
        => \A p \in DOMAIN index :
               \E x \in CollectKeys(data, <<>>) : ToLower(x) = p

\* C22: ConfigSource.Get tries the indexed path as a literal top-level key
\* before splitting it on dots: in every reachable state, for a key the
\* index knows, the answer is the value of the literal top-level key when
\* the tree has one, also when a nested value sits at the same path; only
\* otherwise is it the value reached segment by segment, and not found when
\* the first segment is missing or holds something that is not a tree.
C22_LiteralFirst ==
    \A k \in QueryKeys :
        ToLower(k) \in DOMAIN index =>
            LET ik == index[ToLower(k)] IN
            IF ik \in DOMAIN data THEN AttrTier(k) = Found(data[ik])
            ELSE IF Len(ik) = 3
            THEN LET p == <<ik[1]>>
                     q == <<ik[3]>> IN
                 IF p \in DOMAIN data /\ IsMap(data[p]) /\ q \in DOMAIN data[p].m
                 THEN AttrTier(k) = Found(data[p].m[q])
                 ELSE AttrTier(k) = NotFound
            ELSE AttrTier(k) = NotFound

\* C22 witness: the tree holds the literal key "a.b" and a nested tree at
\* "a" with another value at "b"; Get("a.b") answers with the literal key's
\* value
C22_Witness ==
    /\ Kab \in DOMAIN data /\ data[Kab] # Nil
    /\ Ka \in DOMAIN data /\ IsMap(data[Ka]) /\ Kb \in DOMAIN data[Ka].m
    /\ data[Ka].m[Kb] \notin {Nil, data[Kab]}
    /\ Kab \in DOMAIN index /\ index[Kab] = Kab
    /\ AttrTier(Kab) = Found(data[Kab])

\* C23: the result of merging several documents is the left fold in call
\* order: when MergeAttributes(c) directly follows MergeAttributes(b) on a
\* tree a, the tree is Merge(Merge(a, b), c); the witness shows trees for
\* which Merge(a, Merge(b, c)) is another tree, so deep merge is not
\* associative.
C23_LeftFold ==
    (op.name = "MergeAttributes" /\ op.before # NoOp.before) =>
        /\ op.pre.data = Merge(op.before.data, op.before.doc)
        /\ data = Merge(Merge(op.before.data, op.before.doc), op.doc)

\* C23 witness: on the tree a = {a: {b: ...}}, b = {a: "f2"} and then
\* c = {a: {x: "f3"}} were merged: the tree is Merge(Merge(a, b), c) =
\* {a: {x: "f3"}}, while Merge(a, Merge(b, c)) keeps b under "a"
C23_Witness ==
    /\ op.name = "MergeAttributes" /\ op.before # NoOp.before
    /\ op.before.doc = DocScalar /\ op.doc = DocExtra
    /\ Ka \in DOMAIN op.before.data /\ IsMap(op.before.data[Ka])
    /\ Kb \in DOMAIN op.before.data[Ka].m
    /\ data = Merge(Merge(op.before.data, op.before.doc), op.doc)
    /\ data # Merge(op.before.data, Merge(op.before.doc, op.doc))
    /\ Kb \in DOMAIN Merge(op.before.data, Merge(op.before.doc, op.doc))[Ka].m
    /\ Kb \notin DOMAIN data[Ka].m

\* C24: the presence check of SetDefault spans the whole chain: a
\* SetDefault(k, d) issued while Get(k) has a value and the attribute store
\* has none for k (the value comes from a Changed flag or from a bound
\* environment variable that is not empty) writes nothing to the attribute
\* store; and when the value came from the environment and that variable is
\* cleared next, Get(k) returns nil, not d.
C24_DefaultBlockedByChain ==
    [][/\ (/\ op'.name = "SetDefault"
           /\ Get(Cur, op'.key) # Nil
           /\ AttrTier(op'.key).val = Nil)
              => (data' = data /\ index' = index)
       /\ (/\ op.name = "SetDefault" /\ op.val # Nil
           /\ EnvTierHas(op.key) /\ ~FlagTierHas(op.key)
           /\ AttrTier(op.key).val = Nil
           /\ op'.name = "Setenv" /\ op'.env = envIndex[op.key])
              => /\ Getenv(environ', envIndex[op.key]) = ""
                 /\ Get(Cur', op.key) = Nil]_vars

\* C24 witness: SetDefault("a.b", d) was issued while "a.b" resolved through
\* its bound variable alone: the attribute store is still empty and Get
\* returns the variable's value
C24_Witness ==
    /\ op.name = "SetDefault" /\ op.key = Kab /\ op.val # Nil
    /\ EnvTierHas(Kab) /\ ~FlagTierHas(Kab)
    /\ data = EmptyMap /\ index = EmptyMap
    /\ Get(Cur, Kab) = EnvTierVal(Kab) /\ Get(Cur, Kab) # op.val

\* C25 (as claimed): Set and loaded documents share one tier ordered by call
\* order: for every key k, dotted paths included, when Set(k, v) is followed
\* by a load of a document that defines k with value w, and neither a flag
\* nor the environment supplies k, Get(k) returns w (stated for values v
\* that are not nested trees, which a document replaces).
C25_LoadAfterSetWins ==
    [][(/\ op.name = "Set" /\ ~IsMap(op.val)
        /\ IsLoad(op') /\ alive' /\ op'.errs = <<>>
        /\ DocValue(LoadedDoc(op'), op.key).exists
        /\ ~FlagTierHas(op.key) /\ ~EnvTierHas(op.key))
       => Get(Cur', op.key) = DocValue(LoadedDoc(op'), op.key).val]_vars

\* C26 (as claimed): Reset returns the resolver to the state of a newly
\* constructed instance: right after Reset the attribute store, its index
\* and the flag and environment bindings are empty, and Get returns nil for
\* every key.
C26_ResetEmpties ==
    op.name = "Reset" =>
        /\ data = EmptyMap /\ index = EmptyMap
        /\ envIndex = EmptyMap /\ pflagIndex = EmptyMap
        /\ \A k \in QueryKeys : Get(Cur, k) = Nil

\* C27 (as claimed): the index gives no false negatives: in every reachable state, for
\* every path reachable in the attribute tree whose value is not null,
\* ConfigSource.Get reports the path as existing, written as in the tree,
\* in lowercase or in uppercase.
C27_NoFalseNegatives ==
    \A x \in CollectKeys(data, <<>>) :
        DocValue(data, x).val # Nil =>
            \A k \in {x, ToLower(x), ToUpper(x)} :
                ConfigSourceGet(data, index, k).exists

\* C28 (as claimed): Get is a function of the operation history: whatever
\* the order in which UpdateIndices visits the entries of the tree, that is
\* for every index a MergeAttributes can leave, Get returns the same value
\* for every key.
C28_GetDeterministic ==
    [][op'.name = "MergeAttributes" =>
          \A s \in FromStringMap(index, data') :
              \A k \in QueryKeys :
                  Get([Cur' EXCEPT !.index = s.index], k) = Get(Cur', k)]_vars

\* C29: an environment override applies to the exact bound path only: when
\* the leaf path p.q is bound to a variable that is not empty (and no flag
\* supplies p.q), neither a flag nor the environment supplies p, and the
\* attribute store holds a map with child q at p, Get(p.q) is the value of
\* the variable while the map Get(p) returns still holds the store's value
\* for q.
C29_EnvOverrideExactPath ==
    \A p \in QueryKeys : \A q \in {Kb, Kx} :
        LET pq == p \o <<".">> \o q IN
        (/\ EnvTierHas(pq) /\ ~FlagTierHas(pq)
         /\ ~FlagTierHas(p) /\ ~EnvTierHas(p)
         /\ IsMap(AttrTier(p).val) /\ q \in DOMAIN AttrTier(p).val.m)
            => /\ Get(Cur, pq) = EnvTierVal(pq)
               /\ IsMap(Get(Cur, p))
               /\ q \in DOMAIN Get(Cur, p).m
               /\ Get(Cur, p).m[q] = AttrTier(p).val.m[q]

\* C29 witness: "a.b" is bound to a variable holding "e1" while the store
\* holds a loaded value under a.b: Get("a.b") is "e1" and the map of Get("a")
\* holds the loaded value.
C29_Witness ==
    /\ EnvTierHas(Kab) /\ ~FlagTierHas(Kab)
    /\ ~FlagTierHas(Ka) /\ ~EnvTierHas(Ka)
    /\ Ka \in DOMAIN data /\ data[Ka] = M([j \in {Kb} |-> S("f1")])
    /\ Get(Cur, Kab) = S("e1")
    /\ Get(Cur, Ka).m[Kb] = S("f1")

\* C30 (as claimed): a key stored with a null value is not set: after any
\* step, for every key k whose value in the attribute tree is null and that
\* neither a flag nor the environment supplies, Get(k) is nil and IsSet(k)
\* is false; and a SetDefault(k, d) issued in such a state is not blocked
\* and writes d under the literal key k.
C30_NullIsUnset ==
    [][/\ \A k \in QueryKeys :
              (/\ k \in DOMAIN data' /\ data'[k] = Nil
               /\ ~FlagTierHas(k)' /\ ~EnvTierHas(k)')
                  => (Get(Cur', k) = Nil /\ ~IsSet(Cur', k))
       /\ (/\ op'.name = "SetDefault" /\ op'.val # Nil
           /\ op'.key \in DOMAIN data /\ data[op'.key] = Nil
           /\ ~FlagTierHas(op'.key) /\ ~EnvTierHas(op'.key))
              => data' = Put(data, op'.key, op'.val)]_vars

====
